---- MODULE Spec2Model ----
(***************************************************************************)
(* make-notices (src/main.rs): the license validation and notice           *)
(* aggregation pipeline.                                                   *)
(*                                                                         *)
(* Text is modelled as a sequence of fragments (a license string is the    *)
(* sequence of its lexical tokens, a rendered string the sequence of the   *)
(* pieces written to it), so that concatenation is \o and two texts are    *)
(* equal exactly when their fragment sequences are.                        *)
(***************************************************************************)
EXTENDS Integers, Sequences, FiniteSets, TLC

VARIABLES
    pc,            \* position of the process in main/start
    hasCargoToml,  \* environment: the project has a cargo manifest
    hasPnpmLock,   \* environment: pnpm-lock.yaml exists in the project root
    configFile,    \* environment: contents of notices.toml, or NoFile
    config,        \* CONFIG, the lazily initialised configuration
    cargoPkgs,     \* metadata.packages as returned by `cargo metadata`
    ci,            \* number of cargo packages the loop has taken
    pnpmList,      \* the dependency entries of `pnpm list --json`, in upstream order
    pnpmLeft,      \* indices of pnpmList the HashMap iteration has not yielded yet
    cur,           \* the package the current loop iteration works on
    reqQueue,      \* license_expr.requirements() not yet passed to add_license
    notices,       \* the Notices aggregate: dependencies and licences
    files,         \* the output files written so far
    err,           \* the error the run ended with
    evIn,          \* evaluator harness: (license string, allow-list)
    evOut,         \* evaluator harness: result of the validation
    scIn,          \* scanner harness: the directory handed to scan_for_notices
    scOut          \* scanner harness: the resulting notice set

vars == <<pc, hasCargoToml, hasPnpmLock, configFile, config, cargoPkgs, ci,
          pnpmList, pnpmLeft, cur, reqQueue, notices, files, err,
          evIn, evOut, scIn, scOut>>

None == "none"

Range(s) == {s[i] : i \in 1..Len(s)}

Front(s) == SubSeq(s, 1, Len(s) - 1)

NoDup(s) == \A i, j \in 1..Len(s) : i # j => s[i] # s[j]

(***************************************************************************)
(* spdx: license requirements and their rendering                          *)
(***************************************************************************)

\* The SPDX license identifiers the model draws from.
LicenseIds == {"MIT", "Apache-2.0", "GPL-2.0", "GPL-2.0-or-later"}

\* The SPDX exception identifiers the model draws from.
ExceptionIds == {"LLVM-exception"}

\* LicenseId::name as text: GPL-2.0-or-later is GPL-2.0 followed by -or-later.
IdName(id) ==
    IF id = "GPL-2.0-or-later" THEN <<"GPL-2.0", "-or-later">> ELSE <<id>>

\* LicenseId::is_gnu
IsGnu(id) == id \in {"GPL-2.0", "GPL-2.0-or-later"}

\* LicenseId::is_deprecated: the bare GNU identifiers are deprecated.
IsDeprecated(id) == id = "GPL-2.0"

\* spdx::LicenseReq { license: Spdx { id, or_later }, exception }
LicenseReq(id, orLater, exception) ==
    [id |-> id, or_later |-> orLater, exception |-> exception]

NoReq == LicenseReq(None, FALSE, None)

\* <LicenseReq as Display>::fmt, used by x.to_string() and by {lic.req}
ReqToString(req) ==
    IdName(req.id)
    \o (IF req.or_later
        THEN IF IsGnu(req.id) /\ IsDeprecated(req.id) THEN <<"-or-later">>
             ELSE IF ~IsGnu(req.id) THEN <<"+">>
             ELSE <<>>
        ELSE <<>>)
    \o (IF req.exception # None THEN <<" WITH ", req.exception>> ELSE <<>>)

(***************************************************************************)
(* spdx: Expression::parse_mode(_, ParseMode::LAX), to postfix             *)
(***************************************************************************)

ReqNode(req) == [type |-> "Req", req |-> req, op |-> None]

OpNode(op) == [type |-> "Op", req |-> NoReq, op |-> op]

\* The lexer's classification of one token (LAX: lower-case operators, / as OR).
TokenClass(t) ==
    IF t \in LicenseIds THEN "Spdx"
    ELSE IF t \in ExceptionIds THEN "Exception"
    ELSE IF t \in {"AND", "and"} THEN "And"
    ELSE IF t \in {"OR", "or", "/"} THEN "Or"
    ELSE IF t \in {"WITH", "with"} THEN "With"
    ELSE IF t = "+" THEN "Plus"
    ELSE IF t = "(" THEN "Open"
    ELSE IF t = ")" THEN "Close"
    ELSE "Unknown"

\* AND binds tighter than OR.
Prec(op) == IF op = "AND" THEN 2 ELSE 1

ParseError == [ok |-> FALSE, expr |-> <<>>]

RECURSIVE PopHigher(_, _, _)
\* Move the stacked operators that bind at least as tightly as newop to the queue.
PopHigher(ops, out, newop) ==
    IF ops = <<>> \/ ops[Len(ops)] = "(" THEN [ops |-> ops, out |-> out]
    ELSE IF Prec(ops[Len(ops)]) >= Prec(newop)
         THEN PopHigher(Front(ops), Append(out, OpNode(ops[Len(ops)])), newop)
         ELSE [ops |-> ops, out |-> out]

RECURSIVE PopToOpen(_, _)
\* On a closing parenthesis: apply operators down to the matching opening one.
PopToOpen(ops, out) ==
    IF ops = <<>> THEN [found |-> FALSE, ops |-> ops, out |-> out]
    ELSE IF ops[Len(ops)] = "(" THEN [found |-> TRUE, ops |-> Front(ops), out |-> out]
    ELSE PopToOpen(Front(ops), Append(out, OpNode(ops[Len(ops)])))

RECURSIVE Drain(_, _)
\* At the end of input: apply what is stacked; an opening parenthesis is unclosed.
Drain(ops, out) ==
    IF ops = <<>> THEN [ok |-> TRUE, expr |-> out]
    ELSE IF ops[Len(ops)] = "(" THEN ParseError
    ELSE Drain(Front(ops), Append(out, OpNode(ops[Len(ops)])))

SetLast(out, req) == [out EXCEPT ![Len(out)] = ReqNode(req)]

RECURSIVE ParseFrom(_, _, _, _, _)
\* The parser's loop over the tokens from position i; last is the class of the
\* previous token, ops the operator stack, out the postfix queue.
ParseFrom(toks, i, last, ops, out) ==
    IF i > Len(toks)
    THEN IF last \in {"Spdx", "Exception", "Close", "Plus"} THEN Drain(ops, out)
         ELSE ParseError
    ELSE
    LET t == toks[i]
        c == TokenClass(t)
    IN  CASE c = "Spdx" ->
               IF last \in {None, "And", "Or", "Open"}
               THEN ParseFrom(toks, i + 1, c, ops,
                              Append(out, ReqNode(LicenseReq(t, FALSE, None))))
               ELSE ParseError
          [] c = "Plus" ->
               IF last = "Spdx"
               THEN ParseFrom(toks, i + 1, c, ops,
                              SetLast(out, [out[Len(out)].req EXCEPT !.or_later = TRUE]))
               ELSE ParseError
          [] c = "With" ->
               IF last \in {"Spdx", "Plus"}
               THEN ParseFrom(toks, i + 1, c, ops, out)
               ELSE ParseError
          [] c = "Exception" ->
               IF last = "With"
               THEN ParseFrom(toks, i + 1, c, ops,
                              SetLast(out, [out[Len(out)].req EXCEPT !.exception = t]))
               ELSE ParseError
          [] c \in {"And", "Or"} ->
               IF last \in {"Spdx", "Close", "Exception", "Plus"}
               THEN LET op == IF c = "And" THEN "AND" ELSE "OR"
                        p  == PopHigher(ops, out, op)
                    IN  ParseFrom(toks, i + 1, c, Append(p.ops, op), p.out)
               ELSE ParseError
          [] c = "Open" ->
               IF last \in {None, "And", "Or", "Open"}
               THEN ParseFrom(toks, i + 1, c, Append(ops, "("), out)
               ELSE ParseError
          [] c = "Close" ->
               IF last \in {"Spdx", "Plus", "Exception", "Close"}
               THEN LET p == PopToOpen(ops, out)
                    IN  IF p.found THEN ParseFrom(toks, i + 1, c, p.ops, p.out)
                        ELSE ParseError
               ELSE ParseError
          [] OTHER -> ParseError

\* Expression::parse_mode(license, ParseMode::LAX)
ParseLax(license) == ParseFrom(license, 1, None, <<>>, <<>>)

RECURSIVE ReqsFrom(_, _)
ReqsFrom(expr, i) ==
    IF i > Len(expr) THEN <<>>
    ELSE (IF expr[i].type = "Req" THEN <<expr[i].req>> ELSE <<>>) \o ReqsFrom(expr, i + 1)

\* Expression::requirements(): the requirement nodes, in order.
Requirements(expr) == ReqsFrom(expr, 1)

RECURSIVE EvalFrom(_, _, _, _, _)
EvalFrom(expr, i, allowed, stack, failures) ==
    IF i > Len(expr)
    THEN IF stack # <<>> /\ stack[Len(stack)] = FALSE
         THEN [ok |-> FALSE, failures |-> failures]
         ELSE [ok |-> TRUE, failures |-> <<>>]
    ELSE IF expr[i].type = "Req"
    THEN LET a == \E k \in 1..Len(allowed) : allowed[k] = expr[i].req
         IN  EvalFrom(expr, i + 1, allowed, Append(stack, a),
                      IF a THEN failures ELSE Append(failures, expr[i].req))
    ELSE LET n == Len(stack)
             a == stack[n]
             b == stack[n - 1]
             r == IF expr[i].op = "OR" THEN a \/ b ELSE a /\ b
         IN  EvalFrom(expr, i + 1, allowed, Append(SubSeq(stack, 1, n - 2), r), failures)

\* Faulty variant, kept for sensitivity analysis: only the first failed requirement is reported.
EvaluateFirstFailure(expr, allowed) ==
    LET e == EvalFrom(expr, 1, allowed, <<>>, <<>>)
    IN  [ok |-> e.ok, failures |-> IF e.failures = <<>> THEN <<>> ELSE <<e.failures[1]>>]

\* Expression::evaluate_with_failures(|req| CONFIG.allowed_licenses.iter().any(|x| x == req))
EvaluateWithFailures(expr, allowed) == EvalFrom(expr, 1, allowed, <<>>, <<>>)

(***************************************************************************)
(* handle_package_license: validation against the allow-list               *)
(***************************************************************************)

NotAllowedPrefix ==
    "None of the following licenses were allowed in the allowed_licenses configuration: "

RECURSIVE WriteFailed(_, _, _)
\* The loop writing "{lic.req}{sep}" for every failed requirement, sep being ", "
\* for all but the last.
WriteFailed(msg, failed, i) ==
    IF i >= Len(failed) THEN msg
    ELSE WriteFailed(msg \o ReqToString(failed[i + 1])
                         \o (IF i # Len(failed) - 1 THEN <<", ">> ELSE <<>>),
                     failed, i + 1)

\* An anyhow error: its kind, the dependency it names (or None), its message.
Error(kind, name, msg) == [kind |-> kind, name |-> name, msg |-> msg]

NoError == Error(None, None, <<>>)

\* Faulty variant, kept for sensitivity analysis: only the requirements that the allow-list satisfies are handed on.
ValidateSatisfiedOnly(license, allowed) ==
    LET p == ParseLax(license)
    IN  IF ~p.ok
        THEN [err |-> Error("LicenseParseError", None, license), reqs |-> <<>>]
        ELSE LET e == EvaluateWithFailures(p.expr, allowed)
             IN  IF ~e.ok
                 THEN [err  |-> Error("LicenseNotAllowed", None,
                                      WriteFailed(<<NotAllowedPrefix>>, e.failures, 0)),
                       reqs |-> <<>>]
                 ELSE [err  |-> NoError,
                       reqs |-> SelectSeq(Requirements(p.expr),
                                          LAMBDA r : r \in Range(allowed))]

\* The first half of handle_package_license: parse the license and validate it
\* against CONFIG.allowed_licenses.  Yields the error, or the requirements to add.
ValidateLicense(license, allowed) ==
    LET p == ParseLax(license)
    IN  IF ~p.ok
        THEN [err |-> Error("LicenseParseError", None, license), reqs |-> <<>>]
        ELSE LET e == EvaluateWithFailures(p.expr, allowed)
             IN  IF ~e.ok
                 THEN [err  |-> Error("LicenseNotAllowed", None,
                                      WriteFailed(<<NotAllowedPrefix>>, e.failures, 0)),
                       reqs |-> <<>>]
                 ELSE [err |-> NoError, reqs |-> Requirements(p.expr)]

(***************************************************************************)
(* Evaluator harness: the validation applied to bounded inputs             *)
(***************************************************************************)

\* Largest number of leaf requirements in a generated license string.
MaxLeaves == 3

EvLeaves ==
    { <<"MIT">>, <<"Apache-2.0">>, <<"Apache-2.0", "WITH", "LLVM-exception">>,
      <<"GPL-2.0", "+">> }

MIT == LicenseReq("MIT", FALSE, None)
Apache == LicenseReq("Apache-2.0", FALSE, None)
ApacheLLVM == LicenseReq("Apache-2.0", FALSE, "LLVM-exception")
GplPlus == LicenseReq("GPL-2.0", TRUE, None)
GplOrLater == LicenseReq("GPL-2.0-or-later", FALSE, None)

EvAllowLists ==
    { <<>>, <<Apache>>, <<MIT, ApacheLLVM>>, <<GplPlus, Apache, MIT>>,
      <<ApacheLLVM, GplPlus>> }

RECURSIVE RenderFrom(_, _, _, _)
\* The license string with leaves ls joined by operators os, the leaves
\* par[1]..par[2] parenthesised (no parentheses when par[1] = 0).
RenderFrom(ls, os, par, i) ==
    IF i > Len(ls) THEN <<>>
    ELSE (IF par[1] = i THEN <<"(">> ELSE <<>>)
         \o ls[i]
         \o (IF par[2] = i THEN <<")">> ELSE <<>>)
         \o (IF i < Len(ls) THEN <<os[i]>> ELSE <<>>)
         \o RenderFrom(ls, os, par, i + 1)

EvWellFormed ==
    UNION { { RenderFrom(ls, os, par, 1) :
                ls \in [1..k -> EvLeaves],
                os \in [1..(k - 1) -> {"AND", "OR"}],
                par \in {<<0, 0>>} \cup {p \in (1..k) \X (1..k) : p[1] <= p[2]} }
            : k \in 1..MaxLeaves }

EvMalformed ==
    { <<>>, <<"bogus">>, <<"MIT", "AND">>, <<"(", "MIT">>, <<"MIT", ")">>,
      <<"MIT", "Apache-2.0">>, <<"WITH", "LLVM-exception">>, <<"+", "MIT">> }

EvInit ==
    /\ evIn = <<>>
    /\ evOut = <<>>

\* Choose the license string and the allow-list the validation is applied to.
EvPick ==
    /\ evIn = <<>>
    /\ \E l \in EvWellFormed \cup EvMalformed, a \in EvAllowLists :
          evIn' = <<[license |-> l, allowed |-> a]>>
    /\ UNCHANGED evOut

\* Apply the validation of handle_package_license.
EvRun ==
    /\ evIn # <<>>
    /\ evOut = <<>>
    /\ evOut' = <<ValidateLicense(evIn[1].license, evIn[1].allowed).err>>
    /\ UNCHANGED evIn

Parked ==
    /\ pc = "off" /\ hasCargoToml = FALSE /\ hasPnpmLock = FALSE
    /\ configFile = <<>> /\ config = <<>> /\ cargoPkgs = <<>> /\ ci = 0
    /\ pnpmList = <<>> /\ pnpmLeft = {} /\ cur = <<>>
    /\ reqQueue = <<>> /\ files = {} /\ err = NoError
    /\ notices = [dependencies |-> <<>>, licences |-> <<>>]

mainVars == <<pc, hasCargoToml, hasPnpmLock, configFile, config, cargoPkgs, ci,
              pnpmList, pnpmLeft, cur, reqQueue, notices, files, err>>

SpecEvalInit == Parked /\ EvInit /\ scIn = <<>> /\ scOut = <<>>

SpecEvalNext ==
    \/ EvPick /\ UNCHANGED <<mainVars, scIn, scOut>>
    \/ EvRun /\ UNCHANGED <<mainVars, scIn, scOut>>

SpecEval == SpecEvalInit /\ [][SpecEvalNext]_vars

(***************************************************************************)
(* C6: the validation against the AND/OR/WITH semantics                    *)
(***************************************************************************)

RECURSIVE RefOr(_, _, _), RefAnd(_, _, _), RefPrim(_, _, _)
\* The meaning of a well-formed license string read as a grammar:
\*   or := and (OR and)*   and := prim (AND prim)*   prim := ( or ) | id [+] [WITH exc]
\* val is its truth value under leaf membership in allowed, bad its leaves that are
\* not members, in reading order, next the position after it.
RefPrim(toks, i, allowed) ==
    IF toks[i] = "("
    THEN LET r == RefOr(toks, i + 1, allowed)
         IN  [val |-> r.val, bad |-> r.bad, next |-> r.next + 1]
    ELSE LET plus == i + 1 <= Len(toks) /\ toks[i + 1] = "+"
             j    == IF plus THEN i + 2 ELSE i + 1
             with == j <= Len(toks) /\ toks[j] = "WITH"
             leaf == LicenseReq(toks[i], plus, IF with THEN toks[j + 1] ELSE None)
             in   == leaf \in Range(allowed)
         IN  [val |-> in, bad |-> IF in THEN <<>> ELSE <<leaf>>,
              next |-> IF with THEN j + 2 ELSE j]

RefAnd(toks, i, allowed) ==
    LET l == RefPrim(toks, i, allowed)
    IN  IF l.next <= Len(toks) /\ toks[l.next] = "AND"
        THEN LET r == RefAnd(toks, l.next + 1, allowed)
             IN  [val |-> l.val /\ r.val, bad |-> l.bad \o r.bad, next |-> r.next]
        ELSE l

RefOr(toks, i, allowed) ==
    LET l == RefAnd(toks, i, allowed)
    IN  IF l.next <= Len(toks) /\ toks[l.next] = "OR"
        THEN LET r == RefOr(toks, l.next + 1, allowed)
             IN  [val |-> l.val \/ r.val, bad |-> l.bad \o r.bad, next |-> r.next]
        ELSE l

RECURSIVE CommaSeparated(_)
CommaSeparated(reqs) ==
    IF reqs = <<>> THEN <<>>
    ELSE IF Len(reqs) = 1 THEN ReqToString(reqs[1])
    ELSE ReqToString(reqs[1]) \o <<", ">> \o CommaSeparated(Tail(reqs))

\* C6: for every license string that parses and every allow-list, the validation in
\* handle_package_license succeeds iff the expression is true with AND = all operands,
\* OR = at least one operand and each leaf (license, or-later flag, WITH exception)
\* tested for structural membership in the allow-list; when it fails, the error
\* message lists exactly the leaves that are not in the allow-list, each of them and
\* no other, in encounter order, separated by ", ".
C6_ValidationMatchesSemantics ==
    (evOut # <<>> /\ evIn[1].license \in EvWellFormed) =>
        LET r == RefOr(evIn[1].license, 1, evIn[1].allowed)
        IN  /\ evOut[1] = NoError <=> r.val
            /\ ~r.val => evOut[1] = Error("LicenseNotAllowed", None,
                                          <<NotAllowedPrefix>> \o CommaSeparated(r.bad))

\* C6 witness: an expression with an OR and an AND failed, and two leaves are listed.
C6_Witness ==
    /\ evOut # <<>>
    /\ evIn[1].license = <<"MIT", "AND", "(", "Apache-2.0", "OR", "GPL-2.0", "+", ")">>
    /\ evIn[1].allowed = <<Apache>>
    /\ evOut[1].kind = "LicenseNotAllowed"
    /\ evOut[1].msg = <<NotAllowedPrefix, "MIT", ", ", "GPL-2.0", "-or-later">>

(***************************************************************************)
(* scan_for_notices: text as sequences of characters                       *)
(***************************************************************************)

UpperCase == <<"A", "B", "C", "D", "E", "F", "G", "H", "I", "J", "K", "L", "M",
               "N", "O", "P", "Q", "R", "S", "T", "U", "V", "W", "X", "Y", "Z">>

LowerCase == <<"a", "b", "c", "d", "e", "f", "g", "h", "i", "j", "k", "l", "m",
               "n", "o", "p", "q", "r", "s", "t", "u", "v", "w", "x", "y", "z">>

\* Case folding of one character, as the (?i) flag applies it.
Fold(ch) ==
    IF \E k \in 1..26 : UpperCase[k] = ch
    THEN LowerCase[CHOOSE k \in 1..26 : UpperCase[k] = ch]
    ELSE ch

\* The literal w (given folded) occurs in s at position i, ignoring case.
LiteralAt(s, i, w) ==
    /\ i >= 1
    /\ i + Len(w) - 1 <= Len(s)
    /\ \A k \in 1..Len(w) : Fold(s[i + k - 1]) = w[k]

\* An unanchored (?i) search for one literal.
ContainsLiteral(s, w) == \E i \in 1..Len(s) : LiteralAt(s, i, w)

NewLine == "\n"

W_copyright == <<"c", "o", "p", "y", "r", "i", "g", "h", "t">>
W_marker_c == <<"(", "c", ")">>
\* The character U+00A9.
CopyrightSign == "COPYRIGHT SIGN"

W_marker_sign == <<CopyrightSign>>

\* COPYRIGHT_FILE_RE: (?i)(license.*|copying.*|readme.*|copyright.*|notice.*)
FileWords == { <<"l", "i", "c", "e", "n", "s", "e">>,
               <<"c", "o", "p", "y", "i", "n", "g">>,
               <<"r", "e", "a", "d", "m", "e">>,
               W_copyright,
               <<"n", "o", "t", "i", "c", "e">> }

CopyrightFileRe(name) == \E w \in FileWords : ContainsLiteral(name, w)

\* NOT_COPYRIGHT_RE: (?i)(year|notice|holder|owner|interest|yyyy)
PlaceholderWords == { <<"y", "e", "a", "r">>,
                      <<"n", "o", "t", "i", "c", "e">>,
                      <<"h", "o", "l", "d", "e", "r">>,
                      <<"o", "w", "n", "e", "r">>,
                      <<"i", "n", "t", "e", "r", "e", "s", "t">>,
                      <<"y", "y", "y", "y">> }

NotCopyrightRe(s) == \E w \in PlaceholderWords : ContainsLiteral(s, w)

\* The position of the end of the line that holds position i: that of the next
\* line feed, or one past the end of the text.
RECURSIVE LineEnd(_, _)
LineEnd(text, i) ==
    IF i > Len(text) \/ text[i] = NewLine THEN i ELSE LineEnd(text, i + 1)

\* (U+00A9|\(c\)) somewhere in text[from .. to-1]
MarkerIn(text, from, to) ==
    \E j \in from..(to - 1) :
        \/ LiteralAt(text, j, W_marker_sign)
        \/ LiteralAt(text, j, W_marker_c)

RECURSIVE FindIter(_, _)
\* COPYRIGHT_RE.find_iter(&file), COPYRIGHT_RE = (?im)copyright.*(U+00A9|\(c\)).*$ :
\* the successive leftmost matches from position i on.  A match starts at an
\* occurrence of copyright, needs a marker after it before the line ends, and runs
\* to the end of that line; the search resumes where the match ended.
FindIter(text, i) ==
    IF i > Len(text) THEN <<>>
    ELSE LET e == LineEnd(text, i)
         IN  IF LiteralAt(text, i, W_copyright) /\ MarkerIn(text, i + 9, e)
             THEN <<SubSeq(text, i, e - 1)>> \o FindIter(text, e)
             ELSE FindIter(text, i + 1)

\* A directory entry: its file name, whether it is a regular file, whether its
\* bytes are valid UTF-8, and its text.
Entry(name, isFile, utf8, text) ==
    [name |-> name, is_file |-> isFile, utf8 |-> utf8, text |-> text]

NoticeName == <<"N", "O", "T", "I", "C", "E">>

\* Faulty variant, kept for sensitivity analysis: the filter for template placeholders is not applied.
FileNoticesUnfiltered(text) ==
    LET ms == FindIter(text, 1)
    IN  {ms[k] : k \in 1..Len(ms)}

\* The statements a candidate file contributes: the matches that the placeholder
\* filter does not rule out.
FileNotices(text) ==
    LET ms == FindIter(text, 1)
    IN  {ms[k] : k \in {n \in 1..Len(ms) : ~NotCopyrightRe(ms[n])}}

\* scan_for_notices(out, path), dir being the entries of path.  read_to_string
\* fails on a directory and on bytes that are not UTF-8; an error leaves no result.
ScanForNotices(out, dir) ==
    LET noticeEntries == {e \in dir : e.name = NoticeName}
        candidates    == {e \in dir : e.is_file /\ CopyrightFileRe(e.name)}
    IN  IF \E e \in noticeEntries : ~e.is_file \/ ~e.utf8
        THEN [err |-> Error("IOError", None, NoticeName), out |-> {}]
        ELSE IF \E e \in candidates : ~e.utf8
        THEN [err |-> Error("IOError", None, <<>>), out |-> {}]
        ELSE [err |-> NoError,
              out |-> out \cup {e.text : e \in noticeEntries}
                          \cup UNION {FileNotices(e.text) : e \in candidates}]

(***************************************************************************)
(* Scanner harness: scan_for_notices applied to bounded directories        *)
(***************************************************************************)

\* Largest number of chunks a generated line is made of.
MaxChunks == 3

ScChunks ==
    { <<"C", "o", "p", "y", "r", "i", "g", "h", "t", " ">>, <<"(", "c", ")", " ">>, <<"(", "C", ")", " ">>,
      <<CopyrightSign, " ">>,
      <<"<", "y", "e", "a", "r", ">", " ", "<", "c", "o", "p", "y", "r", "i", "g", "h", "t", " ", "h", "o", "l", "d", "e", "r", "s", ">">>,
      <<"2", "0", "2", "3", " ", "J", "a", "n", "e", " ", "D", "o", "e">>,
      <<"H", "o", "m", "e", "o", "w", "n", "e", "r", "s">> }

RECURSIVE Concat(_)
Concat(ss) == IF ss = <<>> THEN <<>> ELSE ss[1] \o Concat(Tail(ss))

ScLines == UNION { {Concat(cs) : cs \in [1..n -> ScChunks]} : n \in 1..MaxChunks }

\* "Copyright U+00A9 2023 Jane Doe"
RetainedLine == Concat(<<<<"C", "o", "p", "y", "r", "i", "g", "h", "t", " ">>, <<CopyrightSign, " ">>, <<"2", "0", "2", "3", " ", "J", "a", "n", "e", " ", "D", "o", "e">>>>)

\* "Copyright (c) <year> <copyright holders>"
TemplateLine == Concat(<<<<"C", "o", "p", "y", "r", "i", "g", "h", "t", " ">>, <<"(", "c", ")", " ">>, <<"<", "y", "e", "a", "r", ">", " ", "<", "c", "o", "p", "y", "r", "i", "g", "h", "t", " ", "h", "o", "l", "d", "e", "r", "s", ">">>>>)

N_LICENSE_txt == <<"L", "I", "C", "E", "N", "S", "E", ".", "t", "x", "t">>
N_Readme_rst == <<"R", "e", "a", "d", "m", "e", ".", "r", "s", "t">>
N_package_json == <<"p", "a", "c", "k", "a", "g", "e", ".", "j", "s", "o", "n">>
N_COPYING == <<"C", "O", "P", "Y", "I", "N", "G">>
N_license == <<"l", "i", "c", "e", "n", "s", "e">>

\* The directories the scanner is applied to, built around one generated line.
ScDirs(l) ==
    { {Entry(N_LICENSE_txt, TRUE, TRUE, l)},
      {Entry(N_LICENSE_txt, TRUE, TRUE, l \o <<NewLine>> \o RetainedLine \o <<NewLine>>),
       Entry(N_Readme_rst, TRUE, TRUE, TemplateLine \o <<NewLine>> \o l)},
      {Entry(N_package_json, TRUE, TRUE, l), Entry(N_license, FALSE, TRUE, l)},
      {Entry(NoticeName, TRUE, TRUE, l)},
      {Entry(NoticeName, FALSE, TRUE, <<>>)},
      {Entry(N_LICENSE_txt, TRUE, TRUE, l), Entry(N_COPYING, TRUE, FALSE, <<>>)} }

ScInit ==
    /\ scIn = <<>>
    /\ scOut = <<>>

\* Choose the directory to scan.
ScPick ==
    /\ scIn = <<>>
    /\ \E l \in ScLines : \E d \in ScDirs(l) : scIn' = <<d>>
    /\ UNCHANGED scOut

\* Apply scan_for_notices to it, starting from an empty set.
ScRun ==
    /\ scIn # <<>>
    /\ scOut = <<>>
    /\ scOut' = <<ScanForNotices({}, scIn[1])>>
    /\ UNCHANGED scIn

SpecScanInit == Parked /\ EvInit /\ ScInit

SpecScanNext ==
    \/ ScPick /\ UNCHANGED <<mainVars, evIn, evOut>>
    \/ ScRun /\ UNCHANGED <<mainVars, evIn, evOut>>

SpecScan == SpecScanInit /\ [][SpecScanNext]_vars

(***************************************************************************)
(* C9: the copyright statements the scan retains                           *)
(***************************************************************************)

RECURSIVE SplitLines(_)
\* The lines of a text: its maximal pieces without a line feed.
SplitLines(text) ==
    IF \A k \in 1..Len(text) : text[k] # NewLine THEN {text}
    ELSE LET n == CHOOSE k \in 1..Len(text) :
                      text[k] = NewLine /\ \A m \in 1..(k - 1) : text[m] # NewLine
         IN  {SubSeq(text, 1, n - 1)} \cup SplitLines(SubSeq(text, n + 1, Len(text)))

\* The word w occurs in s at position i, letter case ignored.
WordAt(s, i, w) ==
    /\ i + Len(w) <= Len(s) + 1
    /\ [k \in 1..Len(w) |-> Fold(s[i + k - 1])] = w

\* The positions of a line where a copyright statement can start: "copyright",
\* followed later on the line by the copyright sign or "(c)".
StatementStarts(line) ==
    {i \in 1..Len(line) :
        /\ WordAt(line, i, W_copyright)
        /\ \E j \in (i + 9)..Len(line) :
              WordAt(line, j, W_marker_sign) \/ WordAt(line, j, W_marker_c)}

\* The line's copyright statement: from the first such position to the end of line.
Statement(line) ==
    LET first == CHOOSE i \in StatementStarts(line) :
                     \A j \in StatementStarts(line) : i <= j
    IN  SubSeq(line, first, Len(line))

HasPlaceholder(s) ==
    \E w \in PlaceholderWords : \E i \in 1..Len(s) : WordAt(s, i, w)

\* The statements of the lines of the candidate files of dir that are to be kept.
RetainedStatements(dir) ==
    UNION { { Statement(l) : l \in { x \in SplitLines(e.text) :
                                       /\ StatementStarts(x) # {}
                                       /\ ~HasPlaceholder(Statement(x)) } }
            : e \in {x \in dir : x.is_file /\ CopyrightFileRe(x.name)} }

\* C9: a scan that ends without a read error yields, besides the verbatim text of a
\* NOTICE file, exactly the copyright statements of the lines of the candidate files
\* that contain none of the placeholder words: a line's statement is in the set iff
\* it matches the pattern and passes the filter, and a statement found in several
\* files is one element.  The template line "Copyright (c) <year> <copyright
\* holders>" is discarded and "Copyright (sign) 2023 Jane Doe" is retained.
C9_ScanRetainsExactlyRealStatements ==
    /\ (scOut # <<>> /\ scOut[1].err = NoError) =>
          scOut[1].out = {e.text : e \in {x \in scIn[1] : x.name = NoticeName}}
                         \cup RetainedStatements(scIn[1])
    /\ FileNotices(TemplateLine) = {}
    /\ FileNotices(RetainedLine) = {RetainedLine}

\* C9 witness: the retained statement stands in two files beside the template line,
\* and the result holds it once and nothing else.
C9_Witness ==
    /\ scOut # <<>>
    /\ scIn[1] = { Entry(N_LICENSE_txt, TRUE, TRUE,
                         RetainedLine \o <<NewLine>> \o RetainedLine \o <<NewLine>>),
                   Entry(N_Readme_rst, TRUE, TRUE,
                         TemplateLine \o <<NewLine>> \o RetainedLine) }
    /\ scOut[1].err = NoError
    /\ scOut[1].out = {RetainedLine}

(***************************************************************************)
(* Config, Notices                                                         *)
(***************************************************************************)

\* Config { allowed_licenses, ignore_packages }
Config(allowed, ignore) == [allowed_licenses |-> allowed, ignore_packages |-> ignore]

\* Config::default()
DefaultConfig == Config(<<>>, <<>>)

RECURSIVE VisitSeq(_, _, _)
\* LicenseReqVisitor::visit_seq: every element is parsed, its first requirement
\* pushed, and a second requirement is an error.
VisitSeq(elems, i, licenses) ==
    IF i > Len(elems) THEN [ok |-> TRUE, licenses |-> licenses]
    ELSE LET expr == ParseLax(elems[i])
         IN  IF ~expr.ok THEN [ok |-> FALSE, licenses |-> <<>>]
             ELSE LET reqs == Requirements(expr.expr)
                  IN  IF Len(reqs) > 1 THEN [ok |-> FALSE, licenses |-> <<>>]
                      ELSE VisitSeq(elems, i + 1, Append(licenses, reqs[1]))

\* The initialiser of CONFIG: read and deserialise the file, or take the default
\* when it cannot be read.
LoadConfig(file) ==
    IF file = <<>> THEN [ok |-> TRUE, cfg |-> DefaultConfig]
    ELSE LET v == VisitSeq(file[1].allowed_licenses, 1, <<>>)
         IN  IF v.ok
             THEN [ok |-> TRUE, cfg |-> Config(v.licenses, file[1].ignore_packages)]
             ELSE [ok |-> FALSE, cfg |-> DefaultConfig]

\* Dereferencing CONFIG (a Lazy): the value, initialised now if it was not yet.
ForceConfig ==
    IF config # <<>> THEN [ok |-> TRUE, cfg |-> config[1]] ELSE LoadConfig(configFile)

ConfigError == Error("ConfigError", None, <<>>)

\* Faulty variant, kept for sensitivity analysis: the requirement is pushed without looking for an equal one.
AddLicenseAlways(licences, req) == Append(licences, req)

\* Notices::add_license
AddLicense(licences, req) ==
    IF ~(\E k \in 1..Len(licences) : licences[k] = req)
    THEN Append(licences, req)
    ELSE licences

\* The text the license crate holds for an identifier.
TextOf(id) == <<"text of ", id>>

\* Notices::get_license_texts: for every requirement its string and its text.
GetLicenseTexts(licences) ==
    [k \in 1..Len(licences) |->
        << ReqToString(licences[k]),
           TextOf(licences[k].id)
           \o (IF licences[k].exception # None
               THEN <<"\n\nWITH EXCEPTION:\n\n">> \o TextOf(licences[k].exception)
               ELSE <<>>) >>]

\* Dep { name, package_url, license_id, notices }
Dep(name, url, license, depNotices) ==
    [name |-> name, package_url |-> url, license_id |-> license, notices |-> depNotices]

(***************************************************************************)
(* The inputs of a run                                                     *)
(***************************************************************************)

\* Largest number of packages `cargo metadata` returns.
MaxCargo == 2

\* Largest number of dependencies `pnpm list` returns.
MaxPnpm == 2

CratesIo == "registry+https://github.com/rust-lang/crates.io-index"

GitSource == "git+https://example.org/b"

\* A dependency as a collector obtains it.  license is <<>> when absent, dev tells
\* a pnpm devDependency, dir names the contents of the package directory.
Package(name, source, license, authors, dir, dev) ==
    [name |-> name, version |-> "1.0.0", source |-> source, license |-> license,
     authors |-> authors, dir |-> dir, dev |-> dev]

\* The directory contents the packages have.
DirOf(dir) ==
    IF dir = "licensed" THEN {Entry(N_LICENSE_txt, TRUE, TRUE, RetainedLine)}
    ELSE IF dir = "unreadable" THEN {Entry(N_COPYING, TRUE, FALSE, <<>>)}
    ELSE {}

CargoUniverse ==
    { Package("a", CratesIo, << <<"MIT", "OR", "Apache-2.0">> >>, <<"Ann", "Bob">>,
              "licensed", FALSE),
      Package("b", GitSource, << <<"GPL-2.0", "+">> >>, <<>>, "empty", FALSE),
      Package("ig", CratesIo, <<>>, <<>>, "empty", FALSE),
      Package("loc", None, <<>>, <<>>, "empty", FALSE),
      Package("c", CratesIo, <<>>, <<>>, "empty", FALSE) }

PnpmUniverse ==
    { Package("x", "npm", << <<"GPL-2.0-or-later">> >>, <<>>, "licensed", FALSE),
      Package("y", "npm", << <<"MIT", "OR", "Apache-2.0">> >>, <<>>, "empty", FALSE),
      Package("z", "npm", << <<"Apache-2.0">> >>, <<>>, "empty", TRUE),
      Package("u", "npm", << <<"Apache-2.0">> >>, <<>>, "unreadable", TRUE),
      Package("ig", "npm", << <<"bogus">> >>, <<>>, "empty", FALSE),
      Package("ig2", "npm", << <<"Apache-2.0", "WITH", "LLVM-exception">> >>, <<>>,
              "empty", TRUE),
      Package("w", "npm", <<>>, <<>>, "empty", TRUE) }

\* The contents notices.toml can have; <<>> is no readable file.
ConfigFiles ==
    { <<>>,
      << [allowed_licenses |-> << <<"Apache-2.0">>, <<"GPL-2.0", "+">>,
                                  <<"GPL-2.0-or-later">> >>,
          ignore_packages  |-> <<"ig", "ig2">>] >>,
      << [allowed_licenses |-> << <<"Apache-2.0">>, <<"MIT", "OR", "Apache-2.0">> >>,
          ignore_packages  |-> <<>>] >> }

\* metadata.packages: any sequence of packages.
CargoLists == UNION { [1..n -> CargoUniverse] : n \in 0..MaxCargo }

\* The dependencies of `pnpm list`: distinct packages, dependencies before
\* devDependencies.
PnpmLists ==
    { l \in UNION { [1..n -> PnpmUniverse] : n \in 0..MaxPnpm } :
        \A i, j \in 1..Len(l) : i < j => (l[i] # l[j] /\ (l[i].dev => l[j].dev)) }

(***************************************************************************)
(* main, start and the two collectors                                      *)
(***************************************************************************)

Init ==
    /\ pc = "start"
    /\ hasCargoToml \in BOOLEAN
    /\ hasPnpmLock \in BOOLEAN
    /\ configFile \in ConfigFiles
    /\ config = <<>>
    /\ cargoPkgs = <<>> /\ ci = 0
    /\ pnpmList = <<>> /\ pnpmLeft = {}
    /\ cur = <<>> /\ reqQueue = <<>>
    /\ notices = [dependencies |-> <<>>, licences |-> <<>>]
    /\ files = {}
    /\ err = NoError
    /\ EvInit /\ ScInit

\* An error reaches main: it is logged and the process exits with status 1.
Fail(e) ==
    /\ pc' = "exit1"
    /\ err' = e

\* start, up to the first collector: the debug line dereferences CONFIG only when
\* the debug level is enabled; the notices start empty.
Start ==
    /\ pc = "start"
    /\ \E debugEnabled \in BOOLEAN :
          IF debugEnabled
          THEN LET f == ForceConfig
               IN  IF f.ok THEN config' = <<f.cfg>> /\ pc' = "cargo_exec" /\ UNCHANGED err
                   ELSE Fail(ConfigError) /\ UNCHANGED config
          ELSE pc' = "cargo_exec" /\ UNCHANGED <<config, err>>
    /\ notices' = [dependencies |-> <<>>, licences |-> <<>>]
    /\ UNCHANGED <<hasCargoToml, hasPnpmLock, configFile, cargoPkgs, ci, pnpmList,
                   pnpmLeft, cur, reqQueue, files, evIn, evOut, scIn, scOut>>

\* cargo::collect_notices, the metadata command: it fails without a manifest.
CargoExec ==
    /\ pc = "cargo_exec"
    /\ IF ~hasCargoToml
       THEN /\ Fail(Error("ExternalToolError", None, <<"Running cargo metadata failed">>))
            /\ UNCHANGED cargoPkgs
       ELSE /\ \E pkgs \in CargoLists : cargoPkgs' = pkgs
            /\ pc' = "cargo_loop"
            /\ UNCHANGED err
    /\ UNCHANGED <<hasCargoToml, hasPnpmLock, configFile, config, ci, pnpmList,
                   pnpmLeft, cur, reqQueue, notices, files, evIn, evOut, scIn, scOut>>

\* Faulty variant, kept for sensitivity analysis: a package without a license is skipped instead of failing the run.
ProcessSkipMissing(p, addPc, missing) ==
    LET f == ForceConfig
    IN  IF ~f.ok THEN Fail(ConfigError) /\ UNCHANGED <<config, cur, reqQueue>>
        ELSE /\ config' = <<f.cfg>>
             /\ IF \/ \E k \in 1..Len(f.cfg.ignore_packages) :
                         f.cfg.ignore_packages[k] = p.name
                   \/ p.license = <<>>
                THEN UNCHANGED <<pc, err, cur, reqQueue>>
                ELSE LET v == ValidateLicense(p.license[1], f.cfg.allowed_licenses)
                     IN  IF v.err # NoError
                         THEN Fail(v.err) /\ UNCHANGED <<cur, reqQueue>>
                         ELSE /\ pc' = addPc
                              /\ cur' = <<p>>
                              /\ reqQueue' = v.reqs
                              /\ UNCHANGED err

\* Faulty variant, kept for sensitivity analysis: the ignore list is consulted only after the license was handled.
ProcessIgnoreLate(p, addPc, missing) ==
    LET f == ForceConfig
    IN  IF ~f.ok THEN Fail(ConfigError) /\ UNCHANGED <<config, cur, reqQueue>>
        ELSE /\ config' = <<f.cfg>>
             /\ IF p.license = <<>>
                THEN /\ Fail(Error("MissingLicense", p.name,
                                   <<"Package ", p.name, missing>>))
                     /\ UNCHANGED <<cur, reqQueue>>
                ELSE LET v == ValidateLicense(p.license[1], f.cfg.allowed_licenses)
                     IN  IF v.err # NoError
                         THEN Fail(v.err) /\ UNCHANGED <<cur, reqQueue>>
                         ELSE IF \E k \in 1..Len(f.cfg.ignore_packages) :
                                     f.cfg.ignore_packages[k] = p.name
                         THEN UNCHANGED <<pc, err, cur, reqQueue>>
                         ELSE /\ pc' = addPc
                              /\ cur' = <<p>>
                              /\ reqQueue' = v.reqs
                              /\ UNCHANGED err

\* One loop iteration of a collector for package p, from the ignore test to the
\* validation of the license: the package is skipped, the run fails, or its
\* requirements wait to be added (at addPc).
Process(p, addPc, missing) ==
    LET f == ForceConfig
    IN  IF ~f.ok THEN Fail(ConfigError) /\ UNCHANGED <<config, cur, reqQueue>>
        ELSE /\ config' = <<f.cfg>>
             /\ IF \E k \in 1..Len(f.cfg.ignore_packages) :
                       f.cfg.ignore_packages[k] = p.name
                THEN UNCHANGED <<pc, err, cur, reqQueue>>
                ELSE IF p.license = <<>>
                THEN /\ Fail(Error("MissingLicense", p.name,
                                   <<"Package ", p.name, missing>>))
                     /\ UNCHANGED <<cur, reqQueue>>
                ELSE LET v == ValidateLicense(p.license[1], f.cfg.allowed_licenses)
                     IN  IF v.err # NoError
                         THEN Fail(v.err) /\ UNCHANGED <<cur, reqQueue>>
                         ELSE /\ pc' = addPc
                              /\ cur' = <<p>>
                              /\ reqQueue' = v.reqs
                              /\ UNCHANGED err

\* cargo::collect_notices, the head of the loop: the next package with a source.
CargoNext ==
    /\ pc = "cargo_loop"
    /\ IF ci = Len(cargoPkgs)
       THEN /\ pc' = "pnpm_start"
            /\ cargoPkgs' = <<>> /\ ci' = 0
            /\ UNCHANGED <<config, cur, reqQueue, err>>
       ELSE /\ ci' = ci + 1
            /\ UNCHANGED cargoPkgs
            /\ IF cargoPkgs[ci + 1].source = None
               THEN UNCHANGED <<pc, config, cur, reqQueue, err>>
               ELSE Process(cargoPkgs[ci + 1], "cargo_add", " does not have a license")
    /\ UNCHANGED <<hasCargoToml, hasPnpmLock, configFile, pnpmList, pnpmLeft,
                   notices, files, evIn, evOut, scIn, scOut>>

\* handle_package_license, the loop over license_expr.requirements(): one call of
\* notices.add_license.
AddLicenseStep ==
    /\ pc \in {"cargo_add", "pnpm_add"}
    /\ reqQueue # <<>>
    /\ notices' = [notices EXCEPT !.licences = AddLicense(@, Head(reqQueue))]
    /\ reqQueue' = Tail(reqQueue)
    /\ UNCHANGED <<pc, hasCargoToml, hasPnpmLock, configFile, config, cargoPkgs, ci,
                   pnpmList, pnpmLeft, cur, files, err, evIn, evOut, scIn, scOut>>

\* format!("Authors: {}", package.authors.join(", "))
RECURSIVE JoinComma(_)
JoinComma(ss) ==
    IF ss = <<>> THEN <<>>
    ELSE IF Len(ss) = 1 THEN <<ss[1]>>
    ELSE <<ss[1], ", ">> \o JoinComma(Tail(ss))

\* The package URL of a cargo package.
CargoUrl(p) ==
    IF p.source = CratesIo
    THEN <<"https://crates.io/crates/", p.name, "/", p.version>>
    ELSE <<p.source>>

\* The package URL of a pnpm package.
PnpmUrl(p) == <<"https://www.npmjs.com/package/", p.name, "/v/", p.version>>

\* The rest of an iteration, after the license was handled: the package directory
\* is scanned into `out` and the record pushed.
Push(out, url, loopPc) ==
    LET s == ScanForNotices(out, DirOf(cur[1].dir))
    IN  IF s.err # NoError THEN Fail(s.err) /\ UNCHANGED <<notices, cur>>
        ELSE /\ notices' = [notices EXCEPT !.dependencies =
                               Append(@, Dep(cur[1].name, url, cur[1].license[1], s.out))]
             /\ cur' = <<>>
             /\ pc' = loopPc
             /\ UNCHANGED err

\* cargo::collect_notices, the rest of an iteration.
CargoPush ==
    /\ pc = "cargo_add"
    /\ reqQueue = <<>>
    /\ Push(IF cur[1].authors # <<>>
            THEN {<<"Authors: ">> \o JoinComma(cur[1].authors)} ELSE {},
            CargoUrl(cur[1]), "cargo_loop")
    /\ UNCHANGED <<hasCargoToml, hasPnpmLock, configFile, config, cargoPkgs, ci,
                   pnpmList, pnpmLeft, reqQueue, files, evIn, evOut, scIn, scOut>>

\* pnpm::collect_notices, up to the loop: without a lockfile it returns at once.
PnpmStart ==
    /\ pc = "pnpm_start"
    /\ IF ~hasPnpmLock
       THEN pc' = "html" /\ UNCHANGED <<pnpmList, pnpmLeft>>
       ELSE /\ \E l \in PnpmLists : pnpmList' = l /\ pnpmLeft' = 1..Len(l)
            /\ pc' = "pnpm_loop"
    /\ UNCHANGED <<hasCargoToml, hasPnpmLock, configFile, config, cargoPkgs, ci,
                   cur, reqQueue, notices, files, err, evIn, evOut, scIn, scOut>>

\* What the iteration over the two HashMaps can yield next: any dependency not
\* yielded yet, and a devDependency only once no dependency is left.
Yieldable ==
    IF \E i \in pnpmLeft : ~pnpmList[i].dev
    THEN {i \in pnpmLeft : ~pnpmList[i].dev}
    ELSE pnpmLeft

\* pnpm::collect_notices, the head of the loop.
PnpmNext ==
    /\ pc = "pnpm_loop"
    /\ IF pnpmLeft = {}
       THEN /\ pc' = "html"
            /\ pnpmList' = <<>>
            /\ UNCHANGED <<pnpmLeft, config, cur, reqQueue, err>>
       ELSE /\ \E i \in Yieldable :
                  /\ pnpmLeft' = pnpmLeft \ {i}
                  /\ Process(pnpmList[i], "pnpm_add", " doesn't have a license")
            /\ UNCHANGED pnpmList
    /\ UNCHANGED <<hasCargoToml, hasPnpmLock, configFile, cargoPkgs, ci,
                   notices, files, evIn, evOut, scIn, scOut>>

\* pnpm::collect_notices, the rest of an iteration.
PnpmPush ==
    /\ pc = "pnpm_add"
    /\ reqQueue = <<>>
    /\ Push({}, PnpmUrl(cur[1]), "pnpm_loop")
    /\ UNCHANGED <<hasCargoToml, hasPnpmLock, configFile, config, cargoPkgs, ci,
                   pnpmList, pnpmLeft, reqQueue, files, evIn, evOut, scIn, scOut>>

\* What a report holds of the notices: the dependencies and the license texts.
Report(name) ==
    [name |-> name, dependencies |-> notices.dependencies,
     licenses |-> GetLicenseTexts(notices.licences)]

\* start: one report is generated and written.
Write(at, name, next) ==
    /\ pc = at
    /\ files' = files \cup {Report(name)}
    /\ pc' = next
    /\ UNCHANGED <<hasCargoToml, hasPnpmLock, configFile, config, cargoPkgs, ci,
                   pnpmList, pnpmLeft, cur, reqQueue, notices, err,
                   evIn, evOut, scIn, scOut>>

WriteHtml == Write("html", "3rd-party-notices.html", "json")

WriteJson == Write("json", "3rd-party-notices.json", "md")

WriteMarkdown == Write("md", "3rd-party-notices.md", "done")

Next ==
    \/ Start
    \/ CargoExec
    \/ CargoNext
    \/ AddLicenseStep
    \/ CargoPush
    \/ PnpmStart
    \/ PnpmNext
    \/ PnpmPush
    \/ WriteHtml
    \/ WriteJson
    \/ WriteMarkdown

Spec == Init /\ [][Next]_vars

(***************************************************************************)
(* Claims about the run                                                    *)
(***************************************************************************)

\* What the configuration file holds once loaded, whether or not it was loaded yet.
FileConfig == LoadConfig(configFile)

Ignored(p) == p.name \in Range(FileConfig.cfg.ignore_packages)

\* The requirements a license string names.
Named(license) == Range(Requirements(ParseLax(license).expr))

InAddLoop == pc \in {"cargo_add", "pnpm_add"} /\ reqQueue # <<>>

\* C1: the requirement list never holds two structurally equal requirements; a call
\* of add_license with a requirement that is present leaves the list as it is, a
\* call with one that is not present appends it at the end, and nothing else changes
\* the list, so the list is in first-seen order.
C1_AddLicenseDeduplicates ==
    /\ [](NoDup(notices.licences))
    /\ [][ IF InAddLoop
           THEN IF Head(reqQueue) \in Range(notices.licences)
                THEN notices'.licences = notices.licences
                ELSE notices'.licences = Append(notices.licences, Head(reqQueue))
           ELSE notices'.licences = notices.licences ]_vars

\* C1 witness: two different dependencies named the same two requirements, and the
\* list holds each once, in first-seen order.
C1_Witness ==
    /\ Len(notices.dependencies) = 2
    /\ notices.dependencies[1].name = "a"
    /\ notices.dependencies[2].name = "y"
    /\ notices.dependencies[1].license_id = notices.dependencies[2].license_id
    /\ notices.licences = <<MIT, Apache>>

\* The package a step of a collector loop takes, or <<>> when it takes none.
CargoTaken == IF pc = "cargo_loop" /\ ci < Len(cargoPkgs) THEN <<cargoPkgs[ci + 1]>> ELSE <<>>

\* C2: when a collector takes a dependency that has a source, is not ignored and has
\* no declared license, the run ends at once in an error that names the dependency;
\* and a run that ended so has written none of the three output files.
C2_MissingLicenseAbortsBeforeOutput ==
    /\ [](err.kind = "MissingLicense" => (pc = "exit1" /\ files = {}))
    /\ [][ /\ \A k \in 1..Len(CargoTaken) :
                (/\ CargoTaken[k].source # None
                 /\ FileConfig.ok
                 /\ ~Ignored(CargoTaken[k])
                 /\ CargoTaken[k].license = <<>>)
                => /\ pc' = "exit1"
                   /\ err'.kind = "MissingLicense"
                   /\ err'.name = CargoTaken[k].name
                   /\ files' = {}
           /\ \A i \in pnpmLeft \ pnpmLeft' :
                (/\ FileConfig.ok
                 /\ ~Ignored(pnpmList[i])
                 /\ pnpmList[i].license = <<>>)
                => /\ pc' = "exit1"
                   /\ err'.kind = "MissingLicense"
                   /\ err'.name = pnpmList[i].name
                   /\ files' = {} ]_vars

\* C2 witness: the pnpm collector met a dependency without a license after two
\* dependencies had been recorded, and nothing was written.
C2_Witness ==
    /\ pc = "exit1"
    /\ err = Error("MissingLicense", "w", <<"Package ", "w", " doesn't have a license">>)
    /\ Len(notices.dependencies) = 2
    /\ files = {}

\* C3: in every state, so while the collectors run and when rendering starts, every
\* requirement named in the license expression of every record of the dependency
\* list is in the requirement list, also the operands of an OR that were not needed.
C3_RecordedRequirementsPresent ==
    \A k \in 1..Len(notices.dependencies) :
        Named(notices.dependencies[k].license_id) \subseteq Range(notices.licences)

\* C3 witness: rendering starts with a record for "MIT OR Apache-2.0", only
\* Apache-2.0 of the two being allowed, and MIT is in the requirement list.
C3_Witness ==
    /\ pc = "html"
    /\ config # <<>>
    /\ MIT \notin Range(config[1].allowed_licenses)
    /\ \E k \in 1..Len(notices.dependencies) :
          notices.dependencies[k].license_id = <<"MIT", "OR", "Apache-2.0">>
    /\ MIT \in Range(notices.licences)

\* C4: a dependency whose name is in ignore_packages is passed over by both
\* collectors whatever its license: the step that takes it neither ends the run
\* nor changes the notices; no record bears an ignored name; and every requirement
\* of the requirement list is named by a dependency that is not ignored.
C4_IgnoredPackagesLeaveNoTrace ==
    /\ [](FileConfig.ok =>
            /\ \A k \in 1..Len(notices.dependencies) : ~Ignored(notices.dependencies[k])
            /\ \A r \in Range(notices.licences) :
                  \/ \E k \in 1..Len(notices.dependencies) :
                        r \in Named(notices.dependencies[k].license_id)
                  \/ \E k \in 1..Len(cur) :
                        ~Ignored(cur[k]) /\ r \in Named(cur[k].license[1]))
    /\ [][ /\ \A k \in 1..Len(CargoTaken) :
                (CargoTaken[k].source # None /\ FileConfig.ok /\ Ignored(CargoTaken[k]))
                => (pc' = "cargo_loop" /\ notices' = notices /\ err' = NoError)
           /\ \A i \in pnpmLeft \ pnpmLeft' :
                (FileConfig.ok /\ Ignored(pnpmList[i]))
                => (pc' = "pnpm_loop" /\ notices' = notices /\ err' = NoError) ]_vars

\* C4 witness: the pnpm collector has passed over an ignored dependency with an
\* unparseable license and one with a license that is not allowed, after a cargo
\* dependency was recorded; the requirement only the ignored one names is absent.
C4_Witness ==
    /\ pc = "pnpm_loop"
    /\ pnpmLeft = {}
    /\ Len(pnpmList) = 2
    /\ pnpmList[1].name = "ig" /\ pnpmList[1].license = << <<"bogus">> >>
    /\ pnpmList[2].name = "ig2"
    /\ Len(notices.dependencies) = 1
    /\ ApacheLLVM \notin Range(notices.licences)
    /\ err = NoError

IsNpm(dep) == dep.package_url[1] = "https://www.npmjs.com/package/"

\* C5: a collector whose ecosystem has no manifest or lockfile in the project
\* returns without error and contributes nothing, and the run goes on: without a
\* cargo manifest the run does not end in the cargo collector's error, without a
\* pnpm lockfile no pnpm record exists when the reports are written.
C5_NoManifestSkipsSilently ==
    /\ ~hasCargoToml => err.kind # "ExternalToolError"
    /\ (~hasPnpmLock /\ pc \in {"html", "json", "md", "done"}) =>
          \A k \in 1..Len(notices.dependencies) : ~IsNpm(notices.dependencies[k])

\* The names of the packages among s[1..n] that get a record: those with a source
\* that are not ignored.
RECURSIVE RecordedNames(_, _)
RecordedNames(s, n) ==
    IF n = 0 THEN <<>>
    ELSE RecordedNames(s, n - 1)
         \o (IF s[n].source # None /\ ~Ignored(s[n]) THEN <<s[n].name>> ELSE <<>>)

\* The position of the dependency called name in the output of `pnpm list`.
UpstreamIndex(name) == CHOOSE i \in 1..Len(pnpmList) : pnpmList[i].name = name

\* C7: the records of the cargo collector precede those of the pnpm collector, and
\* within each collector the records are in the order in which the metadata source
\* returned the dependencies.
C7_UpstreamOrderPreserved ==
    /\ \A i, j \in 1..Len(notices.dependencies) :
          (i < j /\ IsNpm(notices.dependencies[i])) => IsNpm(notices.dependencies[j])
    /\ pc = "cargo_loop" =>
          [k \in 1..Len(notices.dependencies) |-> notices.dependencies[k].name]
              = RecordedNames(cargoPkgs, ci)
    /\ pc \in {"pnpm_loop", "pnpm_add"} =>
          \A i, j \in 1..Len(notices.dependencies) :
              (i < j /\ IsNpm(notices.dependencies[i])) =>
                  UpstreamIndex(notices.dependencies[i].name)
                      < UpstreamIndex(notices.dependencies[j].name)

\* C8: with an allowed_licenses entry that parses to more than one requirement the
\* configuration fails to load and the process exits before any collector runs;
\* with entries of one requirement each the loaded allow-list holds one requirement
\* per entry, in the order of the file.
C8_BadAllowListFailsBeforeCollectors ==
    /\ ~FileConfig.ok => pc \in {"start", "cargo_exec", "exit1"}
    /\ (FileConfig.ok /\ config # <<>> /\ configFile # <<>>) =>
          /\ Len(config[1].allowed_licenses) = Len(configFile[1].allowed_licenses)
          /\ \A k \in 1..Len(configFile[1].allowed_licenses) :
                Named(configFile[1].allowed_licenses[k]) = {config[1].allowed_licenses[k]}

\* C10: get_license_texts yields one pair per requirement of the requirement list,
\* in insertion order, and no two pairs have the same license string.
C10_LicenseTextsDistinct ==
    LET texts == GetLicenseTexts(notices.licences)
    IN  /\ Len(texts) = Len(notices.licences)
        /\ \A k \in 1..Len(texts) : texts[k][1] = ReqToString(notices.licences[k])
        /\ \A i, j \in 1..Len(texts) : i # j => texts[i][1] # texts[j][1]

====
